---- MODULE Spec2Model ----
(***************************************************************************)
(* A model of experanto's temporal-alignment engine                        *)
(* (src/experanto/interpolators.py): TimeInterval, the Interpolator and    *)
(* ScreenTrial factories, SequenceInterpolator and ScreenInterpolator.     *)
(*                                                                         *)
(* Time is counted in integer ticks.  For a sequence device one raw sample *)
(* lasts TimeDelta ticks; for a screen device the offset 1e-4 that         *)
(* interpolate adds to the query times is Epsilon ticks, so that frames    *)
(* closer than, exactly at and farther than that offset all occur.         *)
(* Interpolated values are kept multiplied by TimeDelta, which keeps the   *)
(* piecewise-linear reconstruction in the integers.                        *)
(***************************************************************************)
EXTENDS Integers, Sequences, FiniteSets, TLC

(* ------------------------------ bounds -------------------------------- *)

\* longest query array passed to interpolate / __contains__
MaxLen == 2
\* rows of the raw store of a sequence device (meta n_timestamps)
NumSamples == 3
\* columns of the raw store of a sequence device (meta n_signals)
MaxChannels == 2
\* most frames (entries of timestamps.npy) of a screen device
MaxFrames == 3

\* meta start_time of a sequence device, and timestamps[0] of a screen device
StartTime == 1
\* 1 / sampling_rate, in ticks
TimeDelta == 2
\* the offset added to the valid query times of a screen device, in ticks
Epsilon == 2
\* the value np.full(..., np.nan) leaves in a row that is never written
NaN == -1

\* per-channel phase shifts (meta/phase_shifts.npy), in ticks
ShiftValues == {-1, 0, 1}
\* constructor argument interp_window
WindowValues == {1}
\* constructor argument interpolation_mode
ModeValues == {"nearest_neighbor", "linear", "cubic"}
\* distance between consecutive frame timestamps, in ticks
GapValues == {Epsilon - 1, Epsilon, Epsilon + 1}
\* image_size of a trial
(* ------------------------------ helpers ------------------------------- *)

Max2(a, b) == IF a >= b THEN a ELSE b

Min2(a, b) == IF a <= b THEN a ELSE b

RECURSIVE SeqMax(_)
SeqMax(s) == IF Len(s) = 1 THEN s[1] ELSE Max2(s[1], SeqMax(Tail(s)))

RECURSIVE SeqMin(_)
SeqMin(s) == IF Len(s) = 1 THEN s[1] ELSE Min2(s[1], SeqMin(Tail(s)))

RECURSIVE SeqSum(_)
SeqSum(s) == IF s = <<>> THEN 0 ELSE s[1] + SeqSum(Tail(s))

\* all sequences over S of length at most n
SeqsUpTo(S, n) == UNION {[1..k -> S] : k \in 0..n}

\* s[mask]: boolean-mask indexing, which builds a new array
RECURSIVE MaskSelect(_, _)
MaskSelect(s, mask) ==
    IF s = <<>> THEN <<>>
    ELSE (IF mask[1] THEN <<s[1]>> ELSE <<>>) \o MaskSelect(Tail(s), Tail(mask))

CountTrue(mask) == Cardinality({i \in 1..Len(mask) : mask[i]})

(* ---------------------------- TimeInterval ---------------------------- *)

TimeInterval(start, end) == [start |-> start, end |-> end]

\* TimeInterval.__contains__
IntervalContains(iv, time) == iv.start <= time /\ time < iv.end

\* a mask that takes the end of the interval in
intersect_closed(iv, times) ==
    [i \in 1..Len(times) |-> (times[i] >= iv.start) /\ (times[i] <= iv.end)]

\* TimeInterval.intersect
intersect(iv, times) ==
    [i \in 1..Len(times) |-> (times[i] >= iv.start) /\ (times[i] < iv.end)]

\* Interpolator.valid_times
valid_times(dev, times) == intersect(dev.valid_interval, times)

\* Interpolator.__contains__: np.any of the mask
contains(dev, times) == \E i \in 1..Len(times) : valid_times(dev, times)[i]

(* ------------------------- modality dispatch -------------------------- *)

LowerLetters ==
    <<"a", "b", "c", "d", "e", "f", "g", "h", "i", "j", "k", "l", "m", "n", "o", "p", "q", "r", "s", "t", "u", "v", "w", "x", "y", "z">>

UpperLetters ==
    <<"A", "B", "C", "D", "E", "F", "G", "H", "I", "J", "K", "L", "M", "N", "O", "P", "Q", "R", "S", "T", "U", "V", "W", "X", "Y", "Z">>

\* str.upper and str.lower on one character
ToUpper(c) ==
    IF \E i \in 1..26 : LowerLetters[i] = c
    THEN UpperLetters[CHOOSE i \in 1..26 : LowerLetters[i] = c] ELSE c

ToLower(c) ==
    IF \E i \in 1..26 : UpperLetters[i] = c
    THEN LowerLetters[CHOOSE i \in 1..26 : UpperLetters[i] = c] ELSE c

\* str.capitalize: first character upper case, the rest lower case
capitalize(s) == [i \in 1..Len(s) |-> IF i = 1 THEN ToUpper(s[i]) ELSE ToLower(s[i])]

\* str.lower
lower(s) == [i \in 1..Len(s) |-> ToLower(s[i])]

\* the value of meta_data.get("modality") when the record has no such key
None == <<"None">>

NameTimeInterval == <<"T", "i", "m", "e", "I", "n", "t", "e", "r", "v", "a", "l">>

NameInterpolator == <<"I", "n", "t", "e", "r", "p", "o", "l", "a", "t", "o", "r">>

NameSequenceInterpolator == <<"S", "e", "q", "u", "e", "n", "c", "e", "I", "n", "t", "e", "r", "p", "o", "l", "a", "t", "o", "r">>

NameScreenInterpolator == <<"S", "c", "r", "e", "e", "n", "I", "n", "t", "e", "r", "p", "o", "l", "a", "t", "o", "r">>

NameScreenTrial == <<"S", "c", "r", "e", "e", "n", "T", "r", "i", "a", "l">>

NameImageTrial == <<"I", "m", "a", "g", "e", "T", "r", "i", "a", "l">>

NameVideoTrial == <<"V", "i", "d", "e", "o", "T", "r", "i", "a", "l">>

NameBlankTrial == <<"B", "l", "a", "n", "k", "T", "r", "i", "a", "l">>

Tag_sequence == <<"s", "e", "q", "u", "e", "n", "c", "e">>

Tag_screen == <<"s", "c", "r", "e", "e", "n">>

Tag_image == <<"i", "m", "a", "g", "e">>

Tag_video == <<"v", "i", "d", "e", "o">>

Tag_blank == <<"b", "l", "a", "n", "k">>

Tag_audio == <<"a", "u", "d", "i", "o">>

\* the classes among the names bound in the module's namespace
globals ==
    {NameTimeInterval, NameInterpolator, NameSequenceInterpolator,
     NameScreenInterpolator, NameScreenTrial, NameImageTrial, NameVideoTrial,
     NameBlankTrial}

SuffixInterpolator == NameInterpolator

SuffixTrial == <<"T", "r", "i", "a", "l">>

(* ----------------------- numpy array primitives ----------------------- *)

\* a[i] on an axis of length n: the 1-based position read, 0 for IndexError
PyIndex(n, i) ==
    IF 0 <= i /\ i < n THEN i + 1
    ELSE IF -n <= i /\ i < 0 THEN n + i + 1
    ELSE 0

\* a[s:e] for s >= 0 on the first axis of a
PySlice(a, s, e) ==
    LET stop == IF e < 0 THEN Max2(Len(a) + e, 0) ELSE Min2(e, Len(a))
    IN  SubSeq(a, s + 1, stop)

\* np.arange(s, e)
arange(s, e) == [j \in 1..Max2(e - s, 0) |-> s + j - 1]

\* np.searchsorted(a, v), side left: how many entries of a are below v
searchsorted(a, v) == Cardinality({i \in 1..Len(a) : a[i] < v})

(* ------------------- linear interpolation primitives ------------------ *)

\* the value at time t of the piecewise-linear curve through the points
\* (xs[j], ys[j]), multiplied by TimeDelta (the spacing of xs); outside the
\* window the nearest end value is held
Interp1(ys, xs, t) ==
    LET n == Len(xs)
    IN  IF t <= xs[1] THEN ys[1] * TimeDelta
        ELSE IF t >= xs[n] THEN ys[n] * TimeDelta
        ELSE LET j == CHOOSE j \in 1..(n - 1) : xs[j] <= t /\ t < xs[j + 1]
             IN  ys[j] * (xs[j + 1] - t) + ys[j + 1] * (t - xs[j])

\* linear_interpolate_1d_sequence(array, orig_times, target_times, keep_nans)
linear_interpolate_1d_sequence(array, orig_times, target_times) ==
    [i \in 1..Len(target_times) |-> Interp1(array, orig_times, target_times[i])]

\* linear_interpolate_sequences(array, orig_times, target_times, keep_nans):
\* the same curve for every column of array, one output row per target time
linear_interpolate_sequences(array, orig_times, target_times, n_signals) ==
    [i \in 1..Len(target_times) |->
        [c \in 1..n_signals |->
            Interp1([j \in 1..Len(array) |-> array[j][c]], orig_times,
                    target_times[i])]]

(* --------------------------- call outcomes ---------------------------- *)

\* a call that returns (samples, valid); windows lists, for the per-channel
\* linear path, the raw window every pass of its loop read and the row it wrote
Return(samples, valid, windows) ==
    [status |-> "ok", samples |-> samples, valid |-> valid, windows |-> windows]

\* a call that raises
Raise(error) ==
    [status |-> error, samples |-> <<>>, valid |-> <<>>, windows |-> <<>>]

NoResult == Raise("none")

(* ------------------------ SequenceInterpolator ------------------------ *)

\* the raw store data.npy / data.mem, shape (n_timestamps, n_signals)
RawStore(n_timestamps, n_signals) ==
    [k \in 1..n_timestamps |-> [c \in 1..n_signals |-> k * k + 3 * c]]

\* SequenceInterpolator.__init__
SequenceInterpolator_init(meta, kw) ==
    [class |-> "SequenceInterpolator",
     keep_nans |-> kw.keep_nans,
     interp_window |-> kw.interp_window,
     interpolation_mode |-> kw.interpolation_mode,
     time_delta |-> meta.time_delta,
     start_time |-> meta.start_time,
     end_time |-> meta.end_time,
     valid_interval |->
        IF meta.phase_shift_per_signal
        THEN TimeInterval(meta.start_time + SeqMax(meta.phase_shifts),
                          meta.end_time + SeqMin(meta.phase_shifts))
        ELSE TimeInterval(meta.start_time, meta.end_time),
     use_phase_shifts |-> meta.phase_shift_per_signal,
     phase_shifts |-> meta.phase_shifts,
     n_signals |-> meta.n_signals,
     data |-> meta.data]

\* idx of interpolate without phase shifts: one raw row per valid time
SeqIdx(dev, vt) ==
    [i \in 1..Len(vt) |-> (vt[i] - dev.start_time) \div dev.time_delta]

\* an idx that adds the channel's phase shift where the code subtracts it
SeqIdxShifted_added(dev, vt) ==
    [i \in 1..Len(vt) |->
        [c \in 1..dev.n_signals |->
            (vt[i] + dev.phase_shifts[c] - dev.start_time) \div dev.time_delta]]

\* idx of interpolate with phase shifts: one raw row per (valid time, channel)
SeqIdxShifted(dev, vt) ==
    [i \in 1..Len(vt) |->
        [c \in 1..dev.n_signals |->
            (vt[i] - dev.phase_shifts[c] - dev.start_time) \div dev.time_delta]]

\* max_idx: the bound end_idx is clamped to
SeqMaxIdx(dev) ==
    (dev.valid_interval.end - dev.valid_interval.start) \div dev.time_delta

\* the linear branch for a one-dimensional idx (no phase shifts)
SeqLinearShared(dev, vt, valid) ==
    LET n == Len(vt)
        idx == SeqIdx(dev, vt)
        start_idx == Max2(0, idx[1] - dev.interp_window)
        end_idx == Min2(idx[n] + dev.interp_window, SeqMaxIdx(dev))
        array == PySlice(dev.data, start_idx, end_idx)
        ar == arange(start_idx, end_idx)
        orig_times ==
            [j \in 1..Len(ar) |-> ar[j] * dev.time_delta + dev.valid_interval.start]
    IN  IF n = 0 THEN Raise("IndexError")
        ELSE IF Len(array) # Len(orig_times) THEN Raise("AssertionError")
        ELSE IF Len(array) = 0 THEN Raise("ValueError")
        ELSE Return(linear_interpolate_sequences(array, orig_times, vt,
                                                 dev.n_signals),
                    valid, <<>>)

\* start_idx of the linear branch for a two-dimensional idx
SeqStartIdx(dev, idx) ==
    [i \in 1..Len(idx) |->
        IF idx[i][1] - dev.interp_window > 0
        THEN idx[i][1] - dev.interp_window ELSE 0]

\* end_idx of the linear branch for a two-dimensional idx
SeqEndIdx(dev, idx) ==
    [i \in 1..Len(idx) |->
        IF idx[i][dev.n_signals] + dev.interp_window < SeqMaxIdx(dev)
        THEN idx[i][dev.n_signals] + dev.interp_window ELSE SeqMaxIdx(dev)]

\* the linear branch for a two-dimensional idx (phase shifts): the loop runs
\* over start_idx, n_idx counting its entries from 0
SeqLinearPerChannel(dev, vt, valid) ==
    LET n == Len(vt)
        idx == SeqIdxShifted(dev, vt)
        start_idx == SeqStartIdx(dev, idx)
        end_idx == SeqEndIdx(dev, idx)
        column(p) == [k \in 1..Len(dev.data) |-> dev.data[k][p]]
        local_data(p) == PySlice(column(p), start_idx[p], end_idx[p])
        ar(p) == arange(start_idx[p], end_idx[p])
        local_time(p) ==
            [j \in 1..Len(ar(p)) |->
                ar(p)[j] * dev.time_delta + dev.valid_interval.start]
        error(p) ==
            IF p - 1 >= dev.n_signals THEN "IndexError"
            ELSE IF Len(local_data(p)) # Len(local_time(p)) THEN "AssertionError"
            ELSE IF Len(local_data(p)) = 0 THEN "ValueError"
            ELSE "none"
        failing == {p \in 1..n : error(p) # "none"}
        first == CHOOSE p \in failing : \A q \in failing : p <= q
        data ==
            [r \in 1..dev.n_signals |->
                IF r <= n
                THEN LET data_r == local_data(r)
                         time_r == local_time(r)
                     IN  linear_interpolate_1d_sequence(data_r, time_r, vt)
                ELSE [i \in 1..n |-> NaN]]
        windows ==
            [p \in 1..n |->
                [n_idx |-> p - 1, start_idx |-> start_idx[p],
                 end_idx |-> end_idx[p]]]
    IN  IF failing # {} THEN Raise(error(first))
        ELSE Return(data, valid, windows)

\* SequenceInterpolator.interpolate
SequenceInterpolate(dev, times) ==
    LET valid == valid_times(dev, times)
        vt == MaskSelect(times, valid)
        n == Len(vt)
        nrows == Len(dev.data)
        idx == SeqIdx(dev, vt)
        idx2 == SeqIdxShifted(dev, vt)
        inRange ==
            IF dev.use_phase_shifts
            THEN \A i \in 1..n : \A c \in 1..dev.n_signals :
                    PyIndex(nrows, idx2[i][c]) # 0
            ELSE \A i \in 1..n : PyIndex(nrows, idx[i]) # 0
        data ==
            IF dev.use_phase_shifts
            THEN [i \in 1..n |->
                    [c \in 1..dev.n_signals |->
                        dev.data[PyIndex(nrows, idx2[i][c])][c]]]
            ELSE [i \in 1..n |-> dev.data[PyIndex(nrows, idx[i])]]
    IN  IF ~inRange THEN Raise("IndexError")
        ELSE IF dev.interpolation_mode = "nearest_neighbor"
        THEN Return(data, valid, <<>>)
        ELSE IF dev.interpolation_mode = "linear"
        THEN IF dev.use_phase_shifts
             THEN SeqLinearPerChannel(dev, vt, valid)
             ELSE SeqLinearShared(dev, vt, valid)
        ELSE Raise("NotImplementedError")

(* ----------------------------- ScreenTrial ---------------------------- *)

\* ScreenTrial.__init__, reached through a subclass; frames is the content
\* of the backing file data/<stem>.npy, one pixel array per frame
ScreenTrial_init(class, meta, image_size, first_frame_idx, num_frames) ==
    [class |-> class,
     modality |-> meta.modality,
     image_size |-> image_size,
     first_frame_idx |-> first_frame_idx,
     num_frames |-> num_frames,
     fill_value |-> meta.fill_value,
     frames |-> meta.frames]

\* ImageTrial.__init__
ImageTrial_init(meta) ==
    ScreenTrial_init("ImageTrial", meta, meta.image_size, meta.first_frame_idx, 1)

\* VideoTrial.__init__
VideoTrial_init(meta) ==
    ScreenTrial_init("VideoTrial", meta, meta.image_size, meta.first_frame_idx,
                     meta.num_frames)

\* BlankTrial.__init__
BlankTrial_init(meta) ==
    ScreenTrial_init("BlankTrial", meta, meta.image_size, meta.first_frame_idx, 1)

\* ScreenTrial.get_data, and BlankTrial.get_data which synthesizes one frame
get_data(trial) ==
    IF trial.class = "BlankTrial" THEN <<trial.fill_value>> ELSE trial.frames

NoObject == [class |-> "none"]

\* ScreenTrial.create: the outcome and the object built
ScreenTrial_create(meta) ==
    LET modality == meta.modality
        class_name == capitalize(modality) \o SuffixTrial
    IN  IF modality = None
        THEN [tag |-> modality, status |-> "AttributeError", object |-> NoObject]
        ELSE IF class_name \notin globals
        THEN [tag |-> modality, status |-> "Unknown modality", object |-> NoObject]
        ELSE IF class_name = NameImageTrial
        THEN [tag |-> modality, status |-> "ok", object |-> ImageTrial_init(meta)]
        ELSE IF class_name = NameVideoTrial
        THEN [tag |-> modality, status |-> "ok", object |-> VideoTrial_init(meta)]
        ELSE IF class_name = NameBlankTrial
        THEN [tag |-> modality, status |-> "ok", object |-> BlankTrial_init(meta)]
        ELSE [tag |-> modality, status |-> "TypeError", object |-> NoObject]

(* -------------------------- ScreenInterpolator ------------------------ *)

\* _parse_trials: ScreenTrial.create on every numbered metadata file, in
\* order, up to and including the first one that raises
RECURSIVE parse_trials(_)
parse_trials(metas) ==
    IF metas = <<>> THEN <<>>
    ELSE LET made == ScreenTrial_create(metas[1])
         IN  IF made.status = "ok" THEN <<made>> \o parse_trials(Tail(metas))
             ELSE <<made>>

\* a mapping that gives every trial one frame
RECURSIVE data_file_idx_single(_, _)
data_file_idx_single(trials, i) ==
    IF trials = <<>> THEN <<>>
    ELSE <<i>> \o data_file_idx_single(Tail(trials), i + 1)

\* np.concatenate([np.full(t.num_frames, i) for i, t in enumerate(trials)])
RECURSIVE data_file_idx(_, _)
data_file_idx(trials, i) ==
    IF trials = <<>> THEN <<>>
    ELSE [j \in 1..trials[1].num_frames |-> i] \o data_file_idx(Tail(trials), i + 1)

\* ScreenInterpolator.__init__ once every trial is built ([status, object])
ScreenInterpolator_init(meta, kw, trials) ==
    LET image_size == trials[1].image_size
        same_size == \A i \in 1..Len(trials) : trials[i].image_size = image_size
        object ==
            [class |-> "ScreenInterpolator",
             timestamps |-> meta.timestamps,
             start_time |-> meta.timestamps[1],
             end_time |-> meta.timestamps[Len(meta.timestamps)],
             valid_interval |->
                TimeInterval(meta.timestamps[1],
                             meta.timestamps[Len(meta.timestamps)]),
             rescale |-> kw.rescale,
             trials |-> trials,
             num_frames |-> [i \in 1..Len(trials) |-> trials[i].num_frames],
             first_frame_idx |->
                [i \in 1..Len(trials) |-> trials[i].first_frame_idx],
             data_file_idx |-> data_file_idx(trials, 0),
             image_size |-> image_size]
    IN  IF ~kw.rescale /\ ~same_size
        THEN [status |-> "All files must have the same image size",
              object |-> NoObject]
        ELSE [status |-> "ok", object |-> object]

\* rescale_frame applied to one frame of the output
rescale_frame(dev, frame) ==
    [pixels |-> frame.pixels, image_size |-> dev.image_size, rescaled |-> TRUE]

\* frame indices taken from searchsorted without the step back
ScreenIdx_unstepped(dev, vt) == [i \in 1..Len(vt) |-> searchsorted(dev.timestamps, vt[i])]

\* the frame indices interpolate computes for the shifted valid times

ScreenIdx(dev, vt) == [i \in 1..Len(vt) |-> searchsorted(dev.timestamps, vt[i]) - 1]

\* valid times moved back by the offset
ScreenShift_back(vt) == [i \in 1..Len(vt) |-> vt[i] - Epsilon]

\* valid times left where they are
ScreenShift_none(vt) == vt

\* valid_times += 1e-4 on the array that times[valid] built

ScreenShift(vt) == [i \in 1..Len(vt) |-> vt[i] + Epsilon]

\* a sortedness test that lets equal times through
StrictlyIncreasing_weak(vt) == \A i \in 1..(Len(vt) - 1) : vt[i + 1] - vt[i] >= 0

\* np.all(np.diff(valid_times) > 0)
StrictlyIncreasing(vt) == \A i \in 1..(Len(vt) - 1) : vt[i + 1] - vt[i] > 0

\* ScreenInterpolator.interpolate
ScreenInterpolate(dev, times) ==
    LET valid == valid_times(dev, times)
        vt == ScreenShift(MaskSelect(times, valid))
        n == Len(vt)
        idx == ScreenIdx(dev, vt)
        file(i) == dev.data_file_idx[PyIndex(Len(dev.data_file_idx), idx[i])]
        data(i) == get_data(dev.trials[file(i) + 1])
        local(i) == PyIndex(Len(data(i)), idx[i] - dev.first_frame_idx[file(i) + 1])
        frame(i) ==
            [pixels |-> data(i)[local(i)], image_size |-> dev.image_size,
             rescaled |-> FALSE]
        out == [i \in 1..n |->
                    IF dev.rescale THEN rescale_frame(dev, frame(i)) ELSE frame(i)]
    IN  IF ~StrictlyIncreasing(vt) THEN Raise("Times must be sorted")
        ELSE IF ~(\A i \in 1..n : idx[i] >= 0 /\ idx[i] < Len(dev.timestamps))
        THEN Raise("All times must be within the valid range")
        ELSE IF \E i \in 1..n : PyIndex(Len(dev.data_file_idx), idx[i]) = 0
        THEN Raise("IndexError")
        ELSE IF \E i \in 1..n : local(i) = 0
        THEN Raise("IndexError")
        ELSE IF \E i \in 1..n :
                    dev.trials[file(i) + 1].image_size # dev.image_size
        THEN Raise("ValueError")
        ELSE Return(out, valid, <<>>)

(* ------------------------- on-disk device folders --------------------- *)

\* interp_window when the constructor is called without keyword arguments
DefaultInterpWindow == 5

\* fill_value of a blank trial
FillValue == 0

Tag_SCREEN == <<"S", "C", "R", "E", "E", "N">>

\* str.upper
upper(s) == [i \in 1..Len(s) |-> ToUpper(s[i])]

\* modality tags a device meta.yml may carry; <<>> is the empty string
InterpolatorTags ==
    {Tag_sequence, Tag_screen, Tag_SCREEN, Tag_audio, Tag_image, <<>>, None}

\* modality tags a trial metadata file may carry besides its own kind's
OtherTrialTags == {Tag_audio, Tag_screen, <<>>, None}

\* meta.yml, meta/phase_shifts.npy and the raw store of one sequence device;
\* shifts is <<>> when phase_shift_per_signal is false
SequenceMeta(tag, n_signals, shifts) ==
    [modality |-> tag,
     time_delta |-> TimeDelta,
     start_time |-> StartTime,
     end_time |-> StartTime + NumSamples * TimeDelta,
     phase_shift_per_signal |-> shifts # <<>>,
     phase_shifts |-> shifts,
     n_signals |-> n_signals,
     data |-> RawStore(NumSamples, n_signals)]

SequenceMetas(tag) ==
    UNION {{SequenceMeta(tag, n, shifts)
              : shifts \in {<<>>} \cup [1..n -> ShiftValues]}
           : n \in 1..MaxChannels}

\* keyword arguments of SequenceInterpolator: none (linear, the default
\* window), interpolation_mode alone, or interp_window alone
SequenceKwargs ==
    {[keep_nans |-> FALSE, interpolation_mode |-> m,
      interp_window |-> DefaultInterpWindow] : m \in ModeValues}
    \cup {[keep_nans |-> FALSE, interpolation_mode |-> "linear",
           interp_window |-> w] : w \in WindowValues}

\* the kinds a run of n frames can start with: [kind, num_frames]
TrialKinds(n) ==
    {[kind |-> "image", num_frames |-> 1], [kind |-> "blank", num_frames |-> 1]}
    \cup {[kind |-> "video", num_frames |-> f] : f \in 2..n}

\* every way to cut n frames into consecutive trials
RECURSIVE TrialLists(_)
TrialLists(n) ==
    IF n = 0 THEN {<<>>}
    ELSE UNION {{<<k>> \o rest : rest \in TrialLists(n - k.num_frames)}
                : k \in TrialKinds(n)}

KindTag(kind) ==
    IF kind = "image" THEN Tag_image
    ELSE IF kind = "video" THEN Tag_video ELSE Tag_blank

\* first_frame_idx of trial i: the global index of its first frame, which is
\* how data.py reads it (screen.timestamps[t.first_frame_idx])
FirstFrameIdx(kinds, i) == SeqSum([j \in 1..(i - 1) |-> kinds[j].num_frames])

\* the metadata file meta/0000i.yml and the backing file data/0000i.npy of
\* trial i; the pixel array of global frame g is written 10 + g
TrialMeta(kinds, i, tag, image_size) ==
    [modality |-> tag,
     image_size |-> image_size,
     first_frame_idx |-> FirstFrameIdx(kinds, i),
     num_frames |-> kinds[i].num_frames,
     fill_value |-> FillValue,
     frames |->
        IF kinds[i].kind = "blank" THEN <<>>
        ELSE [o \in 1..kinds[i].num_frames |->
                10 + FirstFrameIdx(kinds, i) + o - 1]]

\* timestamps.npy and the trial files of one screen device: frames gap ticks
\* apart; trial alt (0 for none) carries the tag alt_tag instead of its
\* kind's; with odd_size the last trial has another image size
ScreenMeta(tag, kinds, gap, alt, alt_tag, odd_size) ==
    [modality |-> tag,
     timestamps |->
        [g \in 1..SeqSum([j \in 1..Len(kinds) |-> kinds[j].num_frames]) |->
            StartTime + (g - 1) * gap],
     trials |->
        [i \in 1..Len(kinds) |->
            TrialMeta(kinds, i,
                      IF i = alt THEN alt_tag ELSE KindTag(kinds[i].kind),
                      IF odd_size /\ i = Len(kinds) /\ i > 1
                      THEN "18x32" ELSE "36x64")]]

\* every cut of at most MaxFrames frames into trials; a device shows at
\* least two frames, so that its valid interval has start < end
AllTrialLists == UNION {TrialLists(n) : n \in 2..MaxFrames}

\* the cuts of a two-frame device
ShortTrialLists == TrialLists(2)

\* the screen folders, with the keyword arguments of the call: well-formed
\* ones at every frame distance (for a tag not spelled in lower case, those
\* of one trial only); and, for two-frame devices at the widest distance,
\* ones built with rescale, and ones whose last trial has another image size
\* or carries another tag
ScreenFolders(tag) ==
    {[meta |-> ScreenMeta(tag, kinds, gap, 0, <<>>, FALSE),
      kw |-> [rescale |-> FALSE]]
       : kinds \in {k \in AllTrialLists : tag = Tag_screen \/ Len(k) = 1},
         gap \in GapValues}
    \cup {[meta |-> ScreenMeta(tag, kinds, Epsilon + 1, 0, <<>>, FALSE),
           kw |-> [rescale |-> TRUE]]
            : kinds \in {k \in ShortTrialLists : tag = Tag_screen \/ Len(k) = 1}}
    \cup {[meta |-> ScreenMeta(tag, kinds, Epsilon + 1, 0, <<>>, TRUE),
           kw |-> [rescale |-> r]]
            : kinds \in {k \in ShortTrialLists : tag = Tag_screen /\ Len(k) > 1},
              r \in BOOLEAN}
    \cup UNION {{[meta |-> ScreenMeta(tag, kinds, Epsilon + 1, Len(kinds),
                                      alt_tag, FALSE),
                  kw |-> [rescale |-> FALSE]]
                   : alt_tag \in OtherTrialTags
                        \cup {upper(KindTag(kinds[Len(kinds)].kind))}}
                : kinds \in {k \in ShortTrialLists : tag = Tag_screen}}

(* ------------------------------ factories ----------------------------- *)

\* Interpolator.__init__ called directly, as create does for the name
\* "Interpolator": it takes root_folder only
Interpolator_init(kw) ==
    IF kw.given
    THEN [status |-> "TypeError", object |-> NoObject, trials |-> <<>>]
    ELSE [status |-> "ok", object |-> [class |-> "Interpolator"], trials |-> <<>>]

\* what create records of one ScreenTrial.create call
TrialLog(made) ==
    [i \in 1..Len(made) |->
        [tag |-> made[i].tag, status |-> made[i].status,
         class |-> made[i].object.class]]

\* ScreenInterpolator(root_folder, **kwargs): _parse_trials, then the rest
ScreenInterpolator_new(meta, kw) ==
    LET made == parse_trials(meta.trials)
        built ==
            ScreenInterpolator_init(meta, kw,
                                    [i \in 1..Len(made) |-> made[i].object])
    IN  IF made[Len(made)].status # "ok"
        THEN [status |-> made[Len(made)].status, object |-> NoObject,
              trials |-> TrialLog(made)]
        ELSE [status |-> built.status, object |-> built.object,
              trials |-> TrialLog(made)]

\* Interpolator.create
Interpolator_create(meta, kw) ==
    LET modality == meta.modality
        class_name == capitalize(modality) \o SuffixInterpolator
    IN  IF modality = None
        THEN [status |-> "AttributeError", object |-> NoObject, trials |-> <<>>]
        ELSE IF class_name \notin globals
        THEN [status |-> "Unknown modality", object |-> NoObject, trials |-> <<>>]
        ELSE IF class_name = NameSequenceInterpolator
        THEN [status |-> "ok", object |-> SequenceInterpolator_init(meta, kw),
              trials |-> <<>>]
        ELSE IF class_name = NameScreenInterpolator
        THEN ScreenInterpolator_new(meta, kw)
        ELSE Interpolator_init(kw)

\* the device folders, with the keyword arguments of the call, that carry
\* the modality tag: the folder of a sequence device for a tag spelling
\* "sequence", of a screen device for one spelling "screen"
Folders(tag) ==
    IF tag # None /\ lower(tag) = Tag_sequence
    THEN {[meta |-> m, kw |-> k] : m \in SequenceMetas(tag), k \in SequenceKwargs}
    ELSE IF tag # None /\ lower(tag) = Tag_screen
    THEN ScreenFolders(tag)
    ELSE {[meta |-> [modality |-> tag], kw |-> [given |-> g]] : g \in BOOLEAN}

(* ---------------------------- state machine --------------------------- *)

VARIABLES
    op,            \* the last operation: "new", "create", "interpolate",
                   \* "contains", "discard"
    created,       \* what Interpolator.create did: [tag, status, class]
    trial_log,     \* what each ScreenTrial.create call of it did
    dev,           \* the interpolator create returned (NoObject: none)
    fresh,         \* that interpolator as it was when create returned
    times,         \* the query array of the last call, as it was passed
    caller_times,  \* the caller's array after the last call
    out,           \* what the last call returned or raised, if it was interpolate
    found          \* what the last call answered, if it was __contains__

vars == <<op, created, trial_log, dev, fresh, times, caller_times, out, found>>

Init ==
    /\ op = "new"
    /\ created = [tag |-> <<>>, status |-> "none", class |-> "none"]
    /\ trial_log = <<>>
    /\ dev = NoObject
    /\ fresh = NoObject
    /\ times = <<>>
    /\ caller_times = <<>>
    /\ out = NoResult
    /\ found = FALSE

\* Interpolator.create(root_folder, **kwargs) on one device folder
CreateFrom(tags) ==
    /\ op = "new"
    /\ \E tag \in tags : \E folder \in Folders(tag) :
        LET made == Interpolator_create(folder.meta, folder.kw)
        IN  /\ created' = [tag |-> tag, status |-> made.status,
                           class |-> made.object.class]
            /\ trial_log' = made.trials
            /\ dev' = made.object
            /\ fresh' = made.object
    /\ op' = "create"
    /\ UNCHANGED <<times, caller_times, out, found>>

IsDevice(d) == d.class \in {"SequenceInterpolator", "ScreenInterpolator"}

\* the caller holds a device and no result of an earlier call
Idle == IsDevice(dev) /\ op \in {"create", "discard"}

\* the query arrays a caller passes: at most MaxLen times, in any order,
\* from one tick before the device's valid interval to one tick after it;
\* and, to a screen device, its own timestamps array
Queries(d) ==
    SeqsUpTo((d.valid_interval.start - 1)..(d.valid_interval.end + 1), MaxLen)
    \cup (IF d.class = "ScreenInterpolator" THEN {d.timestamps} ELSE {})

\* a caller's array that the += 1e-4 of the screen device writes through to
CallerArrayAfter_inplace(d, q) ==
    [i \in 1..Len(q) |->
        IF d.class = "ScreenInterpolator" /\ valid_times(d, q)[i]
        THEN q[i] + Epsilon ELSE q[i]]

\* the caller's array once interpolate has run: times[valid] is built by
\* boolean-mask indexing, a new array, so nothing is written through to times
CallerArrayAfter(d, q) == q

\* interpolate of the device's class
interpolate(d, q) ==
    IF d.class = "SequenceInterpolator"
    THEN SequenceInterpolate(d, q) ELSE ScreenInterpolate(d, q)

\* dev.interpolate(times)
Interpolate ==
    /\ Idle
    /\ \E q \in Queries(dev) :
        /\ times' = q
        /\ out' = interpolate(dev, q)
        /\ caller_times' = CallerArrayAfter(dev, q)
    /\ op' = "interpolate"
    /\ found' = FALSE
    /\ UNCHANGED <<created, trial_log, dev, fresh>>

\* times in dev
Contains ==
    /\ Idle
    /\ \E q \in Queries(dev) :
        /\ times' = q
        /\ caller_times' = q
        /\ found' = contains(dev, q)
    /\ op' = "contains"
    /\ out' = NoResult
    /\ UNCHANGED <<created, trial_log, dev, fresh>>

\* the caller drops the arrays of the last call; the device lives on
Discard ==
    /\ op \in {"interpolate", "contains"}
    /\ op' = "discard"
    /\ times' = <<>>
    /\ caller_times' = <<>>
    /\ out' = NoResult
    /\ found' = FALSE
    /\ UNCHANGED <<created, trial_log, dev, fresh>>

Create == CreateFrom(InterpolatorTags)

Next == Create \/ Interpolate \/ Contains \/ Discard

Spec == Init /\ [][Next]_vars

\* the same machine over the folders of sequence devices only
CreateSequence == CreateFrom({Tag_sequence})

NextSequence == CreateSequence \/ Interpolate \/ Contains \/ Discard

SpecSequence == Init /\ [][NextSequence]_vars

\* the same machine over the folders of screen devices only
CreateScreen == CreateFrom({Tag_screen, Tag_SCREEN})

NextScreen == CreateScreen \/ Interpolate \/ Contains \/ Discard

SpecScreen == Init /\ [][NextScreen]_vars

(* ======================= properties of the engine ===================== *)

IsSequence == dev.class = "SequenceInterpolator"

IsScreen == dev.class = "ScreenInterpolator"

Returned == op = "interpolate" /\ out.status = "ok"

\* start <= t < end, written out
InHalfOpen(iv, t) == iv.start <= t /\ t < iv.end

\* the trial whose frame range [first_frame_idx, first_frame_idx + num_frames)
\* holds global frame k (0-based), as a 1-based position in trials
OwnerOf(d, k) ==
    CHOOSE i \in 1..Len(d.trials) :
        /\ d.trials[i].first_frame_idx <= k
        /\ k < d.trials[i].first_frame_idx + d.trials[i].num_frames

\* the stored pixel data of global frame k (0-based)
StoredFrame(d, k) ==
    get_data(d.trials[OwnerOf(d, k)])[k - d.trials[OwnerOf(d, k)].first_frame_idx + 1]

\* the pixel data of the frames a call returned
PixelsOf(samples) == [i \in 1..Len(samples) |-> samples[i].pixels]

\* consecutive frames are at least the offset Epsilon apart, up to frame k + 1
\* (0-based k)
SpacedUpTo(d, k) ==
    \A j \in 1..(k + 1) : d.timestamps[j + 1] - d.timestamps[j] >= Epsilon

(* C1: every interpolate call that returns gives a valid mask equal,        *)
(* element by element, to valid_interval.start <= times[i] <               *)
(* valid_interval.end, and a samples array with exactly one entry along    *)
(* its first axis per True entry of the mask.                              *)
C1_MaskAndOneSamplePerValidTime ==
    Returned =>
        /\ Len(out.valid) = Len(times)
        /\ \A i \in 1..Len(times) :
            out.valid[i] = InHalfOpen(dev.valid_interval, times[i])
        /\ Len(out.samples) = CountTrue(out.valid)

(* C2, as claimed: a screen device without rescale, asked for the exact    *)
(* display time of any frame k in [0, len(timestamps)), returns exactly    *)
(* one frame, the stored pixel data of frame k.                            *)
C2_ExactTimeReturnsFrame ==
    (op = "interpolate" /\ IsScreen /\ ~dev.rescale /\ Len(times) = 1) =>
        \A k \in 0..(Len(dev.timestamps) - 1) :
            times[1] = dev.timestamps[k + 1] =>
                /\ out.status = "ok"
                /\ PixelsOf(out.samples) = <<StoredFrame(dev, k)>>

(* C2, as amended: the same for every frame k but the last, provided the   *)
(* next frame is displayed at least the offset 1e-4 after frame k; asked   *)
(* for the display time of the last frame the call returns no frame.       *)
C2_ExactTimeReturnsFrameButLast ==
    (op = "interpolate" /\ IsScreen /\ ~dev.rescale /\ Len(times) = 1) =>
        /\ \A k \in 0..(Len(dev.timestamps) - 2) :
            (/\ times[1] = dev.timestamps[k + 1]
             /\ dev.timestamps[k + 2] - dev.timestamps[k + 1] >= Epsilon) =>
                /\ out.status = "ok"
                /\ PixelsOf(out.samples) = <<StoredFrame(dev, k)>>
        /\ times[1] = dev.timestamps[Len(dev.timestamps)] =>
                /\ out.status = "ok"
                /\ out.samples = <<>>
                /\ out.valid = <<FALSE>>

\* C2's case: the display time of a frame inside a video trial was asked for
\* and that frame came back
C2_Witness ==
    /\ op = "interpolate" /\ IsScreen /\ ~dev.rescale /\ Len(times) = 1
    /\ \E k \in 1..(Len(dev.timestamps) - 2) :
        /\ times[1] = dev.timestamps[k + 1]
        /\ dev.trials[OwnerOf(dev, k)].class = "VideoTrial"
        /\ dev.trials[OwnerOf(dev, k)].first_frame_idx < k
        /\ out.status = "ok"
        /\ PixelsOf(out.samples) = <<10 + k>>

(* C3, as claimed: a screen device without rescale, asked for its full     *)
(* native timestamps array, returns one frame per timestamp, each the      *)
(* stored frame: the concatenation of all trials' frames.                  *)
C3_RoundTripAllFrames ==
    (op = "interpolate" /\ IsScreen /\ ~dev.rescale /\ times = dev.timestamps) =>
        /\ out.status = "ok"
        /\ PixelsOf(out.samples) =
            [g \in 1..Len(dev.timestamps) |-> StoredFrame(dev, g - 1)]

(* C3, as amended: asked for its full native timestamps array, a screen    *)
(* device without rescale whose consecutive frames are at least 1e-4 apart *)
(* returns the stored frames of all timestamps but the last, in order; the *)
(* last timestamp is flagged invalid.                                      *)
C3_RoundTripAllButLast ==
    (/\ op = "interpolate" /\ IsScreen /\ ~dev.rescale /\ times = dev.timestamps
     /\ SpacedUpTo(dev, Len(dev.timestamps) - 2)) =>
        /\ out.status = "ok"
        /\ PixelsOf(out.samples) =
            [g \in 1..(Len(dev.timestamps) - 1) |-> StoredFrame(dev, g - 1)]
        /\ out.valid =
            [g \in 1..Len(dev.timestamps) |-> g < Len(dev.timestamps)]

\* C3's case: the full timestamps of a device of several trials and at least
\* three frames were asked for and frames came back
C3_Witness ==
    /\ op = "interpolate" /\ IsScreen /\ ~dev.rescale /\ times = dev.timestamps
    /\ Len(dev.trials) >= 2 /\ Len(dev.timestamps) >= 3
    /\ out.status = "ok"
    /\ Len(out.samples) = Len(dev.timestamps) - 1

\* the time of raw sample k (0-based) of channel c
SampleTime(d, k, c) ==
    d.start_time + k * d.time_delta
    + (IF d.use_phase_shifts THEN d.phase_shifts[c] ELSE 0)

\* what a call on one valid time returned for channel c: samples is laid
\* out (times, channels) without phase shifts and (channels, times) with
ChannelValue(d, o, c) ==
    IF d.use_phase_shifts THEN o.samples[c][1] ELSE o.samples[1][c]

(* C4: in linear mode a sequence device asked for the time of raw sample   *)
(* k of channel c, a time inside valid_interval, returns for channel c     *)
(* exactly data[k, c] (kept here multiplied by TimeDelta), without and     *)
(* with per-channel phase shifts.                                          *)
C4_LinearExactAtSampleTimes ==
    (/\ op = "interpolate" /\ IsSequence /\ Len(times) = 1
     /\ dev.interpolation_mode = "linear"
     /\ InHalfOpen(dev.valid_interval, times[1])) =>
        \A c \in 1..dev.n_signals : \A k \in 0..(Len(dev.data) - 1) :
            times[1] = SampleTime(dev, k, c) =>
                /\ out.status = "ok"
                /\ ChannelValue(dev, out, c) = dev.data[k + 1][c] * TimeDelta

(* C5: membership is half-open.  __contains__ of an interpolator answers   *)
(* true exactly when some query time has start <= t < end of its           *)
(* valid_interval; for one time t, `t in interval` and intersect([t]) say  *)
(* the same; t = end is never contained and t = start always is.           *)
C5_HalfOpenMembership ==
    op = "contains" =>
        /\ found <=> \E i \in 1..Len(times) : InHalfOpen(dev.valid_interval, times[i])
        /\ Len(times) = 1 =>
            /\ IntervalContains(dev.valid_interval, times[1])
                <=> InHalfOpen(dev.valid_interval, times[1])
            /\ intersect(dev.valid_interval, times)
                = <<InHalfOpen(dev.valid_interval, times[1])>>
            /\ found <=> IntervalContains(dev.valid_interval, times[1])
            /\ times[1] = dev.valid_interval.end => ~found
            /\ times[1] = dev.valid_interval.start => found

\* C5's case: a query of the end of the interval, which is not contained,
\* and of its start, which is
C5_Witness ==
    /\ op = "contains"
    /\ times = <<dev.valid_interval.end, dev.valid_interval.start>>
    /\ found

\* the tag spells the name of a registered variant, in any letter case
NamesInterpolator(tag, class) ==
    /\ tag # None
    /\ \/ lower(tag) = Tag_sequence /\ class = "SequenceInterpolator"
       \/ lower(tag) = Tag_screen /\ class = "ScreenInterpolator"

NamesTrial(tag, class) ==
    /\ tag # None
    /\ \/ lower(tag) = Tag_image /\ class = "ImageTrial"
       \/ lower(tag) = Tag_video /\ class = "VideoTrial"
       \/ lower(tag) = Tag_blank /\ class = "BlankTrial"

(* C6: dispatch is closed.  Interpolator.create and ScreenTrial.create     *)
(* return an object only when the modality tag names a registered variant, *)
(* and then an instance of that variant; for every other tag, the empty    *)
(* and the missing one included, they fail with the unknown-modality error *)
(* and return no object.                                                   *)
C6_DispatchClosed ==
    /\ op # "new" =>
        /\ created.class # "none" => NamesInterpolator(created.tag, created.class)
        /\ (\A class \in {"SequenceInterpolator", "ScreenInterpolator"} :
                ~NamesInterpolator(created.tag, class)) =>
            created.status = "Unknown modality" /\ created.class = "none"
    /\ \A i \in 1..Len(trial_log) :
        /\ trial_log[i].class # "none" =>
            NamesTrial(trial_log[i].tag, trial_log[i].class)
        /\ (\A class \in {"ImageTrial", "VideoTrial", "BlankTrial"} :
                ~NamesTrial(trial_log[i].tag, class)) =>
            trial_log[i].status = "Unknown modality" /\ trial_log[i].class = "none"

(* C7: the frame-to-trial mapping of a constructed screen device is a      *)
(* bijection: data_file_idx has one entry per frame, each naming a trial i *)
(* with 0 <= g - first_frame_idx[i] < num_frames[i]; distinct frames g map *)
(* to distinct (trial, offset) pairs and every pair is hit; interpolate    *)
(* never reads outside a trial's frames.                                   *)
C7_FrameMapBijection ==
    IsScreen =>
        LET total == Len(dev.timestamps)
            trial(g) == dev.data_file_idx[g + 1]
            offset(g) == g - dev.first_frame_idx[trial(g) + 1]
        IN  /\ Len(dev.data_file_idx) = total
            /\ \A g \in 0..(total - 1) :
                /\ trial(g) \in 0..(Len(dev.trials) - 1)
                /\ 0 <= offset(g) /\ offset(g) < dev.num_frames[trial(g) + 1]
            /\ \A g, h \in 0..(total - 1) :
                (trial(g) = trial(h) /\ offset(g) = offset(h)) => g = h
            /\ \A i \in 0..(Len(dev.trials) - 1) :
                \A o \in 0..(dev.num_frames[i + 1] - 1) :
                    \E g \in 0..(total - 1) : trial(g) = i /\ offset(g) = o
            /\ op = "interpolate" => out.status # "IndexError"

\* C7's case: a device of several trials, one a video that does not start
\* at frame 0, answered a query from that video
C7_Witness ==
    /\ IsScreen /\ Returned /\ ~dev.rescale
    /\ \E i \in 2..Len(dev.trials) :
        /\ dev.trials[i].class = "VideoTrial"
        /\ \E j \in 1..Len(out.samples) :
            out.samples[j].pixels = 10 + dev.first_frame_idx[i] + 1

\* the valid query times in query order, each moved by the offset
ShiftedValid(d, q) ==
    LET mask == [i \in 1..Len(q) |-> InHalfOpen(d.valid_interval, q[i])]
    IN  [i \in 1..CountTrue(mask) |-> MaskSelect(q, mask)[i] + Epsilon]

(* C8: a screen device rejects unsorted queries: whenever the query times  *)
(* that pass the validity filter are, after the offset is added, not       *)
(* strictly increasing, interpolate fails with "Times must be sorted" and  *)
(* returns no frames.                                                      *)
C8_UnsortedRejected ==
    (/\ op = "interpolate" /\ IsScreen
     /\ \E i \in 1..(Len(ShiftedValid(dev, times)) - 1) :
            ShiftedValid(dev, times)[i + 1] <= ShiftedValid(dev, times)[i]) =>
        /\ out.status = "Times must be sorted"
        /\ out.samples = <<>>

\* C8's case: a query holding the same valid time twice was rejected
C8_Witness ==
    /\ op = "interpolate" /\ IsScreen
    /\ Len(times) = 2 /\ times[1] = times[2]
    /\ InHalfOpen(dev.valid_interval, times[1])
    /\ out.status = "Times must be sorted"

C10_WindowPerChannel ==
    (/\ op = "interpolate" /\ IsSequence /\ dev.use_phase_shifts
     /\ dev.interpolation_mode = "linear"
     /\ \E i \in 1..Len(times) : InHalfOpen(dev.valid_interval, times[i])) =>
        LET mask == [i \in 1..Len(times) |-> InHalfOpen(dev.valid_interval, times[i])]
            vt == MaskSelect(times, mask)
            row(t, c) == (t - dev.phase_shifts[c] - dev.start_time) \div dev.time_delta
        IN  /\ out.status = "ok"
            /\ Len(out.windows) = dev.n_signals
            /\ \A c \in 1..dev.n_signals :
                /\ out.windows[c].n_idx = c - 1
                /\ out.windows[c].start_idx
                    = Max2(row(vt[1], c) - dev.interp_window, 0)
                /\ out.windows[c].end_idx
                    = Min2(row(vt[Len(vt)], c) + dev.interp_window, Len(dev.data))
                /\ \A i \in 1..Len(vt) : out.samples[c][i] # NaN

\* the query times inside the valid interval, in query order
ValidQuery(d, q) ==
    MaskSelect(q, [i \in 1..Len(q) |-> InHalfOpen(d.valid_interval, q[i])])

\* floor((t - phase_shifts[c] - start_time) / time_delta)
ShiftedRow(d, t, c) == (t - d.phase_shifts[c] - d.start_time) \div d.time_delta

(* C11: with phase shifts and a raw store of (end_time - start_time) /      *)
(* time_delta rows, valid_interval is [start_time + max(phase_shifts),      *)
(* end_time + min(phase_shifts)), and for every query time t inside it and  *)
(* every channel c the row floor((t - phase_shifts[c] - start_time) /       *)
(* time_delta) lies in [0, n_timestamps): a nearest-neighbour call returns, *)
(* for each valid time and channel, the raw value of exactly that row,      *)
(* never a wrapped or past-the-end one.                                     *)
C11_ShiftedIndexInStore ==
    (IsSequence /\ dev.use_phase_shifts) =>
        /\ Len(dev.data) * dev.time_delta = dev.end_time - dev.start_time
        /\ dev.valid_interval
            = TimeInterval(dev.start_time + SeqMax(dev.phase_shifts),
                           dev.end_time + SeqMin(dev.phase_shifts))
        /\ op \in {"interpolate", "contains"} =>
            \A i \in 1..Len(ValidQuery(dev, times)) : \A c \in 1..dev.n_signals :
                /\ 0 <= ShiftedRow(dev, ValidQuery(dev, times)[i], c)
                /\ ShiftedRow(dev, ValidQuery(dev, times)[i], c) < Len(dev.data)
        /\ (op = "interpolate" /\ dev.interpolation_mode = "nearest_neighbor") =>
            /\ out.status = "ok"
            /\ Len(out.samples) = Len(ValidQuery(dev, times))
            /\ \A i \in 1..Len(ValidQuery(dev, times)) : \A c \in 1..dev.n_signals :
                out.samples[i][c]
                    = dev.data[ShiftedRow(dev, ValidQuery(dev, times)[i], c) + 1][c]

\* C11's case: a nearest-neighbour call on a device whose channels carry
\* different phase shifts returned samples for the first tick of the valid
\* interval and for its last
C11_Witness ==
    /\ IsSequence /\ dev.use_phase_shifts /\ Returned
    /\ dev.interpolation_mode = "nearest_neighbor"
    /\ dev.n_signals >= 2
    /\ dev.phase_shifts[1] # dev.phase_shifts[2]
    /\ times = <<dev.valid_interval.start, dev.valid_interval.end - 1>>
    /\ Len(out.samples) = 2

\* the frame index of time t: the entries of timestamps below t + 1e-4, less one
FrameRow(d, t) ==
    Cardinality({j \in 1..Len(d.timestamps) : d.timestamps[j] < t + Epsilon}) - 1

(* C12: in ScreenInterpolator.interpolate, for every query whose valid      *)
(* times are strictly increasing, every time that passes the validity       *)
(* filter resolves, after the offset and the binary search, to a frame      *)
(* index in [0, len(timestamps)): the call never fails with "All times must *)
(* be within the valid range", and without rescale it returns for each      *)
(* valid time the stored frame of exactly that index (nothing is clamped).  *)
C12_FrameIndexInRange ==
    (/\ op = "interpolate" /\ IsScreen
     /\ \A i \in 1..(Len(ValidQuery(dev, times)) - 1) :
            ValidQuery(dev, times)[i] < ValidQuery(dev, times)[i + 1]) =>
        /\ \A i \in 1..Len(ValidQuery(dev, times)) :
            /\ 0 <= FrameRow(dev, ValidQuery(dev, times)[i])
            /\ FrameRow(dev, ValidQuery(dev, times)[i]) < Len(dev.timestamps)
        /\ out.status # "All times must be within the valid range"
        /\ out.status # "Times must be sorted"
        /\ (Returned /\ ~dev.rescale) =>
            PixelsOf(out.samples)
                = [i \in 1..Len(ValidQuery(dev, times)) |->
                    StoredFrame(dev, FrameRow(dev, ValidQuery(dev, times)[i]))]

\* C12's case: a sorted query of the first frame's time and of the last tick
\* before the last frame's time was answered with two frames
C12_Witness ==
    /\ IsScreen /\ Returned /\ ~dev.rescale
    /\ Len(dev.timestamps) >= 3
    /\ Len(times) = 2
    /\ times[1] = dev.timestamps[1]
    /\ times[2] = dev.timestamps[Len(dev.timestamps)] - 1
    /\ Len(out.samples) = 2

====
